---------------------------- MODULE Spec2Model ----------------------------
(***************************************************************************)
(* Model of the prescription OCR application's synthetic OCR noise         *)
(* injector (introduceRealisticOCRErrors, addOCRFormattingIssues) and of   *)
(* the extraction route handler (POST) that applies it to the fields of    *)
(* the upstream extraction result.                                         *)
(*                                                                         *)
(* Strings are sequences of one-character strings.  A call of              *)
(* Math.random() is a nondeterministic choice of a value of Draws; a draw  *)
(* d stands for the real number d/100, so that the source's 0.15 is 15.    *)
(* The noise passes are operators that return the set of all their runs,   *)
(* a run being the result together with the draws it consumed, in order.   *)
(*                                                                         *)
(* Three specifications: Spec calls a pass on a bounded input, the         *)
(* formatting pass statement by statement; SpecPOST handles one request;   *)
(* SpecInterleaved runs two invocations of the passes interleaved.         *)
(***************************************************************************)
EXTENDS Integers, Sequences, FiniteSets, TLC

VARIABLES
    text,      \* the string handed to a noise pass
    op,        \* which pass was applied to it ("none" before the call), or
               \* the statement of the formatting pass that was executed last
    rnd,       \* the values Math.random() returned during the call, in order
    result,    \* the string the pass returned
    started,   \* the string and the draws the last step of a pass started from
    request,   \* the body of the request POST handles
    apiKey,    \* whether process.env.GEMINI_API_KEY is set
    pc,        \* where POST is: "start", "fetching", "fetched" or "done"
    fetches,   \* the number of requests sent to the upstream endpoint
    reply,     \* how the upstream call ended
    returnAt,  \* the source line of the return statement POST executed, 0 before
    response,  \* what POST returned: a status and a JSON body
    calls,     \* the invocations of the noise passes that run interleaved
    uploader,  \* the PrescriptionUploader component: its state and its timers
    records,   \* the records page: its list and the deletions in flight
    auth,      \* the auth context and the sign-up form that uses it
    profiles   \* the profiles table and the statement submitted to it

passVars == <<text, op, rnd, result, started>>

postVars == <<request, apiKey, pc, fetches, reply, returnAt, response>>

appVars == <<uploader, records, auth, profiles>>

vars ==
    <<text, op, rnd, result, started, request, apiKey, pc, fetches, reply, returnAt,
      response, calls, uploader, records, auth, profiles>>

\* the value of a variable of a part of the application that is not running
Unused == [used |-> FALSE]

AppIdle ==
    /\ uploader = Unused
    /\ records = Unused
    /\ auth = Unused
    /\ profiles = Unused

-----------------------------------------------------------------------------
(* Bounds of the model. *)

\* longest input string of a single noise pass
MaxLen == 3

\* longest input string of the two passes applied one after the other
MaxBothLen == 1

\* longest medications array of an upstream extraction result
MaxMeds == 2

\* the values Math.random() may return, in hundredths: one below every
\* threshold of the source, one exactly at the error rate (and below the
\* duplication rate), one between the duplication rate and the skip rate, one
\* above all
Draws == {5, 15, 25, 50}

\* characters of the bounded inputs of the character-level pass: "1" has a
\* confusion-table entry (and a repeated key), "d" has none
CharAlphabet == {"1", "d"}

\* characters of the bounded inputs of the formatting pass: "d" is a word
\* character, " " is whitespace, "." is neither
FormatAlphabet == {"d", " ", "."}

RECURSIVE StringsUpTo(_, _)
StringsUpTo(alphabet, n) ==
    IF n = 0 THEN {<<>>}
    ELSE LET shorter == StringsUpTo(alphabet, n - 1)
         IN  shorter \cup {Append(s, c) : s \in {x \in shorter : Len(x) = n - 1}, c \in alphabet}

-----------------------------------------------------------------------------
(* introduceRealisticOCRErrors *)

errorRate == 15

skipRate == 30

duplicateRate == 20

\* The object literal ocrErrors, entry by entry in declaration order.
ocrErrorsLiteral ==
    << <<"O", "0">>, <<"0", "O">>, <<"I", "1">>, <<"1", "I">>,
       <<"l", "1">>, <<"1", "l">>, <<"S", "5">>, <<"5", "S">>,
       <<"B", "8">>, <<"8", "B">>, <<"G", "6">>, <<"6", "G">>,
       <<"Z", "2">>, <<"2", "Z">>, <<"q", "9">>, <<"9", "q">>,
       <<"m", "n">>, <<"n", "m">>, <<"u", "v">>, <<"v", "u">>,
       <<"c", "e">>, <<"e", "c">>, <<"a", "o">>, <<"o", "a">>,
       <<"h", "b">>, <<"b", "h">>, <<"p", "q">>, <<"q", "p">>,
       <<"r", "n">>, <<"n", "r">>, <<"f", "t">>, <<"t", "f">>,
       <<"i", "j">>, <<"j", "i">>,
       <<"C", "c">>, <<"c", "C">>, <<"P", "p">>, <<"p", "P">>,
       <<"K", "k">>, <<"k", "K">>, <<"V", "v">>, <<"v", "V">>,
       <<"W", "w">>, <<"w", "W">>, <<"X", "x">>, <<"x", "X">>,
       <<"Y", "y">>, <<"y", "Y">>, <<"Z", "z">>, <<"z", "Z">> >>

ocrErrorKeys == {ocrErrorsLiteral[k][1] : k \in DOMAIN ocrErrorsLiteral}

Declarations(char) == {k \in DOMAIN ocrErrorsLiteral : ocrErrorsLiteral[k][1] = char}

\* a wrong evaluation of the literal: the first declaration of a key wins
FirstDeclared(char) ==
    LET k == CHOOSE k \in Declarations(char) : \A j \in Declarations(char) : k <= j
    IN  ocrErrorsLiteral[k][2]

\* An object literal is evaluated by defining its properties in order, so a
\* repeated key keeps the value of its last declaration.
PropertyValue(char) ==
    LET k == CHOOSE k \in Declarations(char) : \A j \in Declarations(char) : j <= k
    IN  ocrErrorsLiteral[k][2]

\* the object ocrErrors as it exists at run time
ocrErrors == [char \in ocrErrorKeys |-> PropertyValue(char)]

\* a wrong test: the table is never consulted
NeverHasEntry(char) == FALSE

\* if (ocrErrors[char]): the property exists and its value is a non-empty string
HasEntry(char) == char \in ocrErrorKeys /\ ocrErrors[char] # ""

\* a wrong append: the new characters are put in front of the result
Prepend(res, chars) == chars \o res

\* result += chars
Emit(res, chars) == res \o chars

\* a wrong duplication: the character is followed by a blank
CharThenBlank(char) == <<char, " ">>

\* a wrong duplication: the character is written three times
Triple(char) == <<char, char, char>>

\* char + char
Duplicate(char) == <<char, char>>

\* a wrong comparison: a draw equal to the error rate also corrupts
AtOrBelowErrorRate(d) == d <= errorRate

\* Math.random() < errorRate
BelowErrorRate(d) == d < errorRate

\* a wrong threshold: the skip test uses the duplication rate
SkipBelowDuplicateRate(d) == d < duplicateRate

\* Math.random() < 0.3
BelowSkipRate(d) == d < skipRate

\* Math.random() < 0.2
BelowDuplicateRate(d) == d < duplicateRate

\* The loop of introduceRealisticOCRErrors from character i on, given the draws
\* consumed and the result built so far: the set of runs it can complete.
RECURSIVE CharLoop(_, _, _, _)
CharLoop(t, i, drawn, res) ==
    IF i > Len(t) THEN {[result |-> res, rnd |-> drawn]}
    ELSE
      LET char == t[i] IN
      UNION {
        IF BelowErrorRate(d1) THEN
          IF HasEntry(char) THEN
            CharLoop(t, i + 1, drawn \o <<d1>>, Emit(res, <<ocrErrors[char]>>))
          ELSE
            UNION {
              IF BelowSkipRate(d2) THEN
                CharLoop(t, i + 1, drawn \o <<d1, d2>>, res)
              ELSE
                UNION {
                  IF BelowDuplicateRate(d3) THEN
                    CharLoop(t, i + 1, drawn \o <<d1, d2, d3>>, Emit(res, Duplicate(char)))
                  ELSE
                    CharLoop(t, i + 1, drawn \o <<d1, d2, d3>>, Emit(res, <<char>>))
                  : d3 \in Draws }
              : d2 \in Draws }
        ELSE
          CharLoop(t, i + 1, drawn \o <<d1>>, Emit(res, <<char>>))
        : d1 \in Draws }

\* a wrong pass: it branches on values that are not draws of Math.random()
IntroduceUnlogged(t) ==
    {[result |-> r.result, rnd |-> <<>>] : r \in CharLoop(t, 1, <<>>, <<>>)}

\* a wrong initial value: let result = " "
IntroduceFromBlank(t) == CharLoop(t, 1, <<>>, <<" ">>)

introduceRealisticOCRErrors(t) == CharLoop(t, 1, <<>>, <<>>)

-----------------------------------------------------------------------------
(* addOCRFormattingIssues *)

lineBreakRate == 10

removeSpaceRate == 15

extraSpaceRate == 8

\* the regular-expression class \w: [A-Za-z0-9_]
WordChars ==
    {"A", "B", "C", "D", "E", "F", "G", "H", "I", "J", "K", "L", "M",
     "N", "O", "P", "Q", "R", "S", "T", "U", "V", "W", "X", "Y", "Z",
     "a", "b", "c", "d", "e", "f", "g", "h", "i", "j", "k", "l", "m",
     "n", "o", "p", "q", "r", "s", "t", "u", "v", "w", "x", "y", "z",
     "0", "1", "2", "3", "4", "5", "6", "7", "8", "9", "_"}

\* the regular-expression class \s, as far as the model's strings go
SpaceChars == {" ", "\n", "\t", "\r", "\f"}

IsWord(c) == c \in WordChars

IsSpace(c) == c \in SpaceChars

\* the last index of the run of word characters that starts at s (t[s] is one)
RECURSIVE WordRunEnd(_, _)
WordRunEnd(t, s) ==
    IF s < Len(t) /\ IsWord(t[s + 1]) THEN WordRunEnd(t, s + 1) ELSE s

\* the last index of the run of whitespace that starts at s (t[s] is whitespace)
RECURSIVE SpaceRunEnd(_, _)
SpaceRunEnd(t, s) ==
    IF s < Len(t) /\ IsSpace(t[s + 1]) THEN SpaceRunEnd(t, s + 1) ELSE s

\* /(\w+)\s+(\w+)/ matched at start index s: both quantifiers are greedy and
\* the two classes are disjoint, so the only candidate is the whole word run
\* from s, the whole whitespace run after it and the whole word run after that.
PairMatchesAt(t, s) ==
    /\ s <= Len(t)
    /\ IsWord(t[s])
    /\ LET e1 == WordRunEnd(t, s) IN
       /\ e1 < Len(t)
       /\ IsSpace(t[e1 + 1])
       /\ LET e2 == SpaceRunEnd(t, e1 + 1) IN
          /\ e2 < Len(t)
          /\ IsWord(t[e2 + 1])

\* the match of /(\w+)\s+(\w+)/ at s: its groups and the index of its last character
PairMatch(t, s) ==
    LET e1 == WordRunEnd(t, s)
        e2 == SpaceRunEnd(t, e1 + 1)
        e3 == WordRunEnd(t, e2 + 1)
    IN  [word1 |-> SubSeq(t, s, e1), word2 |-> SubSeq(t, e2 + 1, e3), last |-> e3]

\* the leftmost index at or after from where the pattern matches, 0 if none
FirstPairMatch(t, from) ==
    LET starts == {s \in from..Len(t) : PairMatchesAt(t, s)}
    IN  IF starts = {} THEN 0
        ELSE CHOOSE s \in starts : \A u \in starts : s <= u

\* a global replace resumes the search right after the last match
ResumeAfter(m) == m.last + 1

\* a wrong replacement: the words are joined by a tab
JoinedByTab(word1, word2) == word1 \o <<"\t">> \o word2

\* `${word1}\n${word2}`
JoinedByLineBreak(word1, word2) == word1 \o <<"\n">> \o word2

\* result.replace(/(\w+)\s+(\w+)/g, ...) from index from on
RECURSIVE LineBreakLoop(_, _, _, _)
LineBreakLoop(t, from, drawn, res) ==
    LET s == FirstPairMatch(t, from) IN
    IF s = 0 THEN {[result |-> res \o SubSeq(t, from, Len(t)), rnd |-> drawn]}
    ELSE
      LET m == PairMatch(t, s)
          before == res \o SubSeq(t, from, s - 1)
      IN
      UNION {
        IF d < lineBreakRate THEN
          LineBreakLoop(t, ResumeAfter(m), Append(drawn, d),
                        before \o JoinedByLineBreak(m.word1, m.word2))
        ELSE
          LineBreakLoop(t, ResumeAfter(m), Append(drawn, d),
                        before \o SubSeq(t, s, m.last))
        : d \in Draws }

\* the leftmost index at or after from that holds whitespace, 0 if none
FirstSpace(t, from) ==
    LET starts == {s \in from..Len(t) : IsSpace(t[s])}
    IN  IF starts = {} THEN 0
        ELSE CHOOSE s \in starts : \A u \in starts : s <= u

\* a wrong pattern: /\s/ matches one whitespace character
SingleWhitespace(t, s) == s

\* the pattern /\s+/ is greedy: a match that starts at s ends with the run
WhitespaceMatchEnd(t, s) == SpaceRunEnd(t, s)

\* result.replace(/\s+/g, ...) from index from on
RECURSIVE RemoveSpacesLoop(_, _, _, _)
RemoveSpacesLoop(t, from, drawn, res) ==
    LET s == FirstSpace(t, from) IN
    IF s = 0 THEN {[result |-> res \o SubSeq(t, from, Len(t)), rnd |-> drawn]}
    ELSE
      LET e == WhitespaceMatchEnd(t, s)
          before == res \o SubSeq(t, from, s - 1)
      IN
      UNION {
        IF d < removeSpaceRate THEN
          RemoveSpacesLoop(t, e + 1, Append(drawn, d), before)
        ELSE
          RemoveSpacesLoop(t, e + 1, Append(drawn, d), before \o SubSeq(t, s, e))
        : d \in Draws }

\* a wrong pattern: /([\s\S])/ matches every character
MatchesAnyChar(c) == TRUE

\* the pattern /(\w)/ matches one word character
MatchesWordChar(c) == IsWord(c)

\* result.replace(/(\w)/g, ...) from index i on
RECURSIVE ExtraSpacesLoop(_, _, _, _)
ExtraSpacesLoop(t, i, drawn, res) ==
    IF i > Len(t) THEN {[result |-> res, rnd |-> drawn]}
    ELSE IF MatchesWordChar(t[i]) THEN
      UNION {
        IF d < extraSpaceRate THEN
          ExtraSpacesLoop(t, i + 1, Append(drawn, d), res \o <<t[i], " ">>)
        ELSE
          ExtraSpacesLoop(t, i + 1, Append(drawn, d), Append(res, t[i]))
        : d \in Draws }
    ELSE ExtraSpacesLoop(t, i + 1, drawn, Append(res, t[i]))

\* the three replacements in the order of the source, each on the result of
\* the one before, all drawing from the same Math.random(); drawn holds the
\* draws already consumed before the call
FormattingFrom(t, drawn) ==
    UNION { UNION { ExtraSpacesLoop(r2.result, 1, r2.rnd, <<>>)
                    : r2 \in RemoveSpacesLoop(r1.result, 1, r1.rnd, <<>>) }
            : r1 \in LineBreakLoop(t, 1, drawn, <<>>) }

addOCRFormattingIssues(t) == FormattingFrom(t, <<>>)

\* addOCRFormattingIssues(introduceRealisticOCRErrors(t))
CharThenFormatting(t) ==
    UNION { FormattingFrom(r.result, r.rnd) : r \in introduceRealisticOCRErrors(t) }

-----------------------------------------------------------------------------
(* The noise passes called on their own: one call per behaviour. *)

\* no request is being handled
PostIdle ==
    /\ request = "none"
    /\ apiKey = FALSE
    /\ pc = "done"
    /\ fetches = 0
    /\ reply = [kind |-> "none"]
    /\ returnAt = 0
    /\ response = [status |-> 0, body |-> <<>>]

\* inputs of the character-level pass that hold whitespace
SpacedInputs == {<<" ">>, <<"d", " ">>, <<"1", "d", " ">>}

\* the inputs of the character-level pass: the bounded strings, every key of
\* the confusion table as a string of one character, and the spaced inputs
CharInputs ==
    StringsUpTo(CharAlphabet, MaxLen)
        \cup {<<char>> : char \in ocrErrorKeys}
        \cup SpacedInputs

\* longer inputs of the formatting pass: three words, and two words
\* separated by a run of two whitespace characters
LongInputs == {<<"d", " ", "d", " ", "d">>, <<"d", " ", " ", "d">>}

\* the inputs of the formatting pass
FormatInputs == StringsUpTo(FormatAlphabet, MaxLen) \cup LongInputs

\* a pass called with t has made no draw yet
Entered(t) == [text |-> t, rnd |-> <<>>]

\* a pass is about to be called with text
PassInit ==
    /\ text \in CharInputs \cup FormatInputs
    /\ op = "none"
    /\ rnd = <<>>
    /\ result = <<>>
    /\ started = Entered(text)
    /\ PostIdle
    /\ calls = <<>>
    /\ AppIdle

CallCharPass ==
    /\ op = "none"
    /\ text \in CharInputs
    /\ \E r \in introduceRealisticOCRErrors(text) :
         /\ op' = "char"
         /\ rnd' = r.rnd
         /\ result' = r.result
    /\ UNCHANGED <<text, started, postVars, calls, appVars>>

\* addOCRFormattingIssues, its first statement: the line breaks
FormatLineBreaks ==
    /\ op = "none"
    /\ text \in FormatInputs
    /\ \E r \in LineBreakLoop(text, 1, <<>>, <<>>) :
         /\ op' = "lineBreaks"
         /\ rnd' = r.rnd
         /\ result' = r.result
    /\ UNCHANGED <<text, started, postVars, calls, appVars>>

\* a wrong order: the spaces are inserted before the whitespace is deleted
FormatExtraSpacesSecond ==
    /\ op = "lineBreaks"
    /\ \E r \in ExtraSpacesLoop(result, 1, rnd, <<>>) :
         /\ started' = [text |-> result, rnd |-> rnd]
         /\ op' = "removeSpaces"
         /\ rnd' = r.rnd
         /\ result' = r.result
    /\ UNCHANGED <<text, postVars, calls, appVars>>

\* addOCRFormattingIssues, its second statement, on the result of the first
FormatRemoveSpaces ==
    /\ op = "lineBreaks"
    /\ \E r \in RemoveSpacesLoop(result, 1, rnd, <<>>) :
         /\ started' = [text |-> result, rnd |-> rnd]
         /\ op' = "removeSpaces"
         /\ rnd' = r.rnd
         /\ result' = r.result
    /\ UNCHANGED <<text, postVars, calls, appVars>>

\* addOCRFormattingIssues, its third statement, on the result of the second,
\* and the return of its result
FormatExtraSpaces ==
    /\ op = "removeSpaces"
    /\ \E r \in ExtraSpacesLoop(result, 1, rnd, <<>>) :
         /\ started' = [text |-> result, rnd |-> rnd]
         /\ op' = "format"
         /\ rnd' = r.rnd
         /\ result' = r.result
    /\ UNCHANGED <<text, postVars, calls, appVars>>

CallBothPasses ==
    /\ op = "none"
    /\ text \in CharInputs
    /\ Len(text) <= MaxBothLen
    /\ \E r \in CharThenFormatting(text) :
         /\ op' = "both"
         /\ rnd' = r.rnd
         /\ result' = r.result
    /\ UNCHANGED <<text, started, postVars, calls, appVars>>

PassNext ==
    \/ CallCharPass
    \/ FormatLineBreaks
    \/ FormatRemoveSpaces
    \/ FormatExtraSpaces
    \/ CallBothPasses

Spec == PassInit /\ [][PassNext]_vars

-----------------------------------------------------------------------------
(* Properties of the character-level pass. *)

Range(s) == {s[k] : k \in DOMAIN s}

IsPrefix(p, s) == Len(p) <= Len(s) /\ SubSeq(s, 1, Len(p)) = p

Suffix(s, n) == SubSeq(s, n + 1, Len(s))

Front(s) == SubSeq(s, 1, Len(s) - 1)

Last(s) == s[Len(s)]

\* what one input character may become: nothing, itself once, itself twice,
\* or its table substitute once
AllowedChunks(char) ==
    {<<>>, <<char>>, <<char, char>>}
        \cup (IF char \in ocrErrorKeys THEN {<<ocrErrors[char]>>} ELSE {})

\* out is a concatenation, in order, of one allowed chunk per character of t
RECURSIVE Chunked(_, _)
Chunked(t, out) ==
    IF t = <<>> THEN out = <<>>
    ELSE \E c \in AllowedChunks(Head(t)) :
            /\ IsPrefix(c, out)
            /\ Chunked(Tail(t), Suffix(out, Len(c)))

\* C1: the output of the character-level pass is the left-to-right
\* concatenation of one chunk per input character, each chunk being empty,
\* the character once, the character twice or its table substitute once; no
\* character is transposed or reordered.
C1_OrderPreservingChunks == op = "char" => Chunked(text, result)

C1_Witness ==
    /\ op = "char"
    /\ text = <<"1", "d", " ">>
    /\ result = <<"l", "d", "d">>

\* the runs of the character-level pass on every input, tabulated
CharPassRuns == [t \in CharInputs |-> introduceRealisticOCRErrors(t)]

\* The run of the pass on the input without its last character that the
\* current run extends: same draws, same output, up to that character.
RunsOnFront ==
    {r \in CharPassRuns[Front(text)] :
        IsPrefix(r.rnd, rnd) /\ IsPrefix(r.result, result)}

\* C2: the output of the character-level pass on a string of length N has
\* between 0 and 2N characters, and no single input character contributes
\* more than 2 of them: the run is the run on the input without its last
\* character, extended by at most 2 characters.
C2_LengthAtMostDouble ==
    op = "char" =>
        /\ Len(result) <= 2 * Len(text)
        /\ text # <<>> =>
              \E r \in RunsOnFront : Len(result) - Len(r.result) \in 0..2

C2_Witness ==
    /\ op = "char"
    /\ text = <<"d", "d">>
    /\ result = <<"d", "d", "d", "d">>

\* C7: the empty string is mapped to the empty string by the character-level
\* pass, by the formatting pass and by the two applied in sequence, whatever
\* the draws.
C7_EmptyToEmpty == (op # "none" /\ text = <<>>) => result = <<>>

C7_Witness ==
    /\ op = "both"
    /\ text = <<>>
    /\ result = <<>>

\* C8: if every draw of the character-level pass is at or above the error
\* rate (then each draw is the first draw of one character), the pass
\* returns its input, whether or not its characters have table entries.
C8_NoErrorDrawsIdentity ==
    (op = "char" /\ \A k \in DOMAIN rnd : rnd[k] >= errorRate) => result = text

C8_Witness ==
    /\ op = "char"
    /\ text = <<"1", "d", " ">>
    /\ rnd = <<15, 50, 15>>
    /\ result = text

\* C9: when the first draw of a character that has a confusion-table entry
\* is below the error rate, exactly the mapped character is emitted for it,
\* once, and no further draw is made for it (the drop and duplicate branches
\* are not taken).  Stated for the last character of the input, every input
\* being the extension of a shorter one.
C9_SubstitutionTakesPrecedence ==
    (op = "char" /\ text # <<>> /\ Last(text) \in ocrErrorKeys) =>
        \E r \in RunsOnFront :
            LET draws == Suffix(rnd, Len(r.rnd))
                chunk == Suffix(result, Len(r.result))
            IN  /\ draws # <<>>
                /\ draws[1] < errorRate =>
                      /\ chunk = <<ocrErrors[Last(text)]>>
                      /\ Len(draws) = 1

C9_Witness ==
    /\ op = "char"
    /\ text = <<"1", "1">>
    /\ rnd = <<5, 5>>
    /\ result = <<"l", "l">>

\* the substitutes the claim names for the keys declared more than once
LastDeclaredSubstitute ==
    [char \in {"1", "q", "n", "c", "p", "v", "Z"} |->
        CASE char = "1" -> "l"
          [] char = "q" -> "p"
          [] char = "n" -> "r"
          [] char = "c" -> "C"
          [] char = "p" -> "P"
          [] char = "v" -> "V"
          [] char = "Z" -> "z"]

\* the keys the literal declares more than once
RepeatedKeys == {char \in ocrErrorKeys : Cardinality(Declarations(char)) > 1}

\* the one substitute a key may be replaced by: the last-declared one for a
\* repeated key, the only declared one for any other key
OnlySubstitute(char) ==
    IF char \in DOMAIN LastDeclaredSubstitute THEN LastDeclaredSubstitute[char]
    ELSE ocrErrorsLiteral[CHOOSE k \in Declarations(char) : TRUE][2]

\* C10: at run time a character has at most one substitute, and for the keys
\* declared more than once ("1", "q", "n", "c", "p", "v", "Z") it is the
\* last-declared one ("l", "p", "r", "C", "P", "V", "z"): every character the
\* pass emits is a character of the input or that substitute of one, so no
\* earlier-declared substitute is emitted.
C10_LastDeclarationWins ==
    /\ RepeatedKeys = DOMAIN LastDeclaredSubstitute
    /\ op = "char" =>
          \A k \in DOMAIN result :
              result[k] \in Range(text)
                  \cup {OnlySubstitute(char) : char \in Range(text) \cap ocrErrorKeys}

C10_Witness ==
    /\ op = "char"
    /\ text = <<"1", "1">>
    /\ result = <<"l", "1">>

\* C16: for a character without a confusion-table entry whose first draw is
\* below the error rate, a second draw is made: below 0.3 the character is
\* dropped and no further draw is made for it; otherwise a third draw is
\* made, below 0.2 the character is emitted twice, otherwise once.  So no
\* character is both dropped and duplicated, and a character is duplicated
\* only after its skip draw was 0.3 or more.  Stated for the last character
\* of the input, every input being the extension of a shorter one.
C16_SkipThenDuplicate ==
    (op = "char" /\ text # <<>> /\ Last(text) \notin ocrErrorKeys) =>
        \E r \in RunsOnFront :
            LET draws == Suffix(rnd, Len(r.rnd))
                chunk == Suffix(result, Len(r.result))
            IN  /\ draws # <<>>
                /\ draws[1] >= errorRate => (Len(draws) = 1 /\ chunk = <<Last(text)>>)
                /\ draws[1] < errorRate =>
                      /\ Len(draws) >= 2
                      /\ IF draws[2] < 30
                         THEN Len(draws) = 2 /\ chunk = <<>>
                         ELSE /\ Len(draws) = 3
                              /\ IF draws[3] < 20
                                 THEN chunk = <<Last(text), Last(text)>>
                                 ELSE chunk = <<Last(text)>>

C16_Witness ==
    /\ op = "char"
    /\ text = <<"d", "d">>
    /\ rnd = <<5, 25, 5, 50, 15>>
    /\ result = <<"d", "d">>

\* C24: every character of the output of the character-level pass occurs
\* in the input or is the table substitute of a character that occurs in
\* the input; and the characters produced for an input character without a
\* table entry are all that character.  The second part is stated for the
\* last character of the input, every input being the extension of a
\* shorter one.
C24_OnlyInputOrSubstitute ==
    op = "char" =>
        /\ Range(result) \subseteq
              Range(text) \cup {ocrErrors[char] : char \in Range(text) \cap ocrErrorKeys}
        /\ (text # <<>> /\ Last(text) \notin DOMAIN ocrErrors) =>
              \E r \in RunsOnFront :
                  Range(Suffix(result, Len(r.result))) \subseteq {Last(text)}

C24_Witness ==
    /\ op = "char"
    /\ text = <<"1", "d">>
    /\ result = <<"l", "d", "d">>

-----------------------------------------------------------------------------
(* Properties of the two passes as functions of the input and the draws. *)

\* the runs of the formatting pass on every input, tabulated
FormatPassRuns == [t \in FormatInputs |-> addOCRFormattingIssues(t)]

\* the sequences of draws of runs
DrawsOf(runs) == {r.rnd : r \in runs}

\* Math.random() returning the same values one after the other in two runs
\* of runs, the two consume the same number of them (no sequence of draws
\* is the beginning of a longer one) and return the same output (no two
\* runs have the same draws)
FunctionOfDraws(runs) ==
    LET draws == DrawsOf(runs) IN
    /\ Cardinality(draws) = Cardinality(runs)
    /\ \A d \in draws : \A k \in 0..(Len(d) - 1) : SubSeq(d, 1, k) \notin draws

\* whether each pass is a function of the draws, input by input
CharPassIsFunction == [t \in CharInputs |-> FunctionOfDraws(CharPassRuns[t])]

FormatPassIsFunction == [t \in FormatInputs |-> FunctionOfDraws(FormatPassRuns[t])]

\* the run of the current state
ThisRun == [result |-> result, rnd |-> rnd]

\* C11: the character-level pass and the formatting pass are functions of
\* the input string and of the sequence of draws: any two runs on the same
\* input and the same draws consume the same number of them and return the
\* same output, the run made being one of them.
C11_SameInputSameDrawsSameOutput ==
    /\ op = "char" => (ThisRun \in CharPassRuns[text] /\ CharPassIsFunction[text])
    /\ op = "format" => (ThisRun \in FormatPassRuns[text] /\ FormatPassIsFunction[text])

C11_Witness ==
    /\ op = "format"
    /\ text = <<"d", " ", "d">>
    /\ rnd = <<5, 50, 50, 50>>
    /\ result = <<"d", "\n", "d">>

-----------------------------------------------------------------------------
(* Properties of the formatting pass. *)

\* the characters of the output that do not occur in the input
Introduced == Range(result) \ Range(text)

\* C12, as claimed: a character that occurs in the output of the formatting
\* pass and not in its input is a space; the pass introduces no other
\* character.
C12_IntroducesOnlySpaces == op = "format" => Introduced \subseteq {" "}

\* C12, amended: a character that occurs in the output of the formatting
\* pass and not in its input is a space or a line break; the pass introduces
\* no other character.
C12_IntroducesOnlySpacesAndLineBreaks == op = "format" => Introduced \subseteq {" ", "\n"}

C12_Witness ==
    /\ op = "format"
    /\ text = <<"d", " ", "d">>
    /\ result = <<"d", " ", "\n", "d">>
    /\ Introduced = {"\n"}

\* the whitespace runs of t that separate two adjacent words, each as the
\* pair of its first and last index
Gaps(t) ==
    {g \in (1..Len(t)) \X (1..Len(t)) :
        /\ g[1] <= g[2]
        /\ \A k \in g[1]..g[2] : IsSpace(t[k])
        /\ g[1] > 1 /\ IsWord(t[g[1] - 1])
        /\ g[2] < Len(t) /\ IsWord(t[g[2] + 1])}

\* t from index i on, with each gap of broken replaced by one line break
RECURSIVE WithLineBreaks(_, _, _)
WithLineBreaks(t, broken, i) ==
    IF i > Len(t) THEN <<>>
    ELSE IF \E g \in broken : g[1] = i
    THEN LET g == CHOOSE g \in broken : g[1] = i
         IN  <<"\n">> \o WithLineBreaks(t, broken, g[2] + 1)
    ELSE <<t[i]>> \o WithLineBreaks(t, broken, i + 1)

\* some run of the line-break transform on t replaces gap g by a line break
Eligible(t, g) ==
    \E r \in LineBreakLoop(t, 1, <<>>, <<>>) :
        \E broken \in SUBSET Gaps(t) :
            g \in broken /\ r.result = WithLineBreaks(t, broken, 1)

\* C17, as claimed: in the line-break transform every whitespace run that
\* separates two adjacent words is eligible: for the string the transform
\* was applied to and each such run there are draws under which the
\* transform replaces that run by one line break.
C17_EveryGapEligible ==
    op = "lineBreaks" => \A g \in Gaps(text) : Eligible(text, g)

\* t from index i on, with one space appended after each character whose
\* index is in spaced
RECURSIVE WithSpaces(_, _, _)
WithSpaces(t, spaced, i) ==
    IF i > Len(t) THEN <<>>
    ELSE (IF i \in spaced THEN <<t[i], " ">> ELSE <<t[i]>>) \o WithSpaces(t, spaced, i + 1)

\* some run of the space-insertion transform on t appends one space after
\* the character at index i
SpaceEligible(t, i) ==
    \E r \in ExtraSpacesLoop(t, 1, <<>>, <<>>) :
        \E spaced \in SUBSET DOMAIN t :
            i \in spaced /\ r.result = WithSpaces(t, spaced, 1)

\* the draws the last statement made
StatementDraws == Suffix(rnd, Len(started.rnd))

\* the number of word characters of t up to index i
WordRank(t, i) == Cardinality({k \in 1..i : IsWord(t[k])})

\* C18, as claimed: in the space-insertion transform every character of the
\* string, word character or not, is eligible to have one space appended
\* after it.
C18_EveryCharacterEligible ==
    op = "format" => \A i \in DOMAIN started.text : SpaceEligible(started.text, i)

\* C18, amended: the space-insertion transform makes one draw per word
\* character, in order, and its output is its input with exactly one space
\* appended after each word character whose draw is below 0.08; every word
\* character is eligible, at most one space is appended per character, and
\* no space is appended after a character that is not a word character.
C18_WordCharactersEligible ==
    op = "format" =>
        LET t == started.text
            words == {i \in DOMAIN t : IsWord(t[i])}
        IN  /\ Len(StatementDraws) = Cardinality(words)
            /\ result = WithSpaces(t, {i \in words : StatementDraws[WordRank(t, i)] < 8}, 1)
            /\ \A i \in words : SpaceEligible(t, i)

C18_Witness ==
    /\ op = "format"
    /\ started.text = <<"d", ".", "d">>
    /\ StatementDraws = <<5, 50>>
    /\ result = <<"d", " ", ".", "d">>

\* the maximal runs of whitespace of t, each as the pair of its first and
\* last index
MaximalRuns(t) ==
    {g \in (1..Len(t)) \X (1..Len(t)) :
        /\ g[1] <= g[2]
        /\ \A k \in g[1]..g[2] : IsSpace(t[k])
        /\ g[1] = 1 \/ ~IsSpace(t[g[1] - 1])
        /\ g[2] = Len(t) \/ ~IsSpace(t[g[2] + 1])}

\* t from index i on, without the runs of deleted
RECURSIVE WithoutRuns(_, _, _)
WithoutRuns(t, deleted, i) ==
    IF i > Len(t) THEN <<>>
    ELSE IF \E g \in deleted : g[1] = i
    THEN LET g == CHOOSE g \in deleted : g[1] = i
         IN  WithoutRuns(t, deleted, g[2] + 1)
    ELSE <<t[i]>> \o WithoutRuns(t, deleted, i + 1)

\* the number of maximal runs of t that start at or before run g
RunRank(t, g) == Cardinality({h \in MaximalRuns(t) : h[1] <= g[1]})

NotSpace(c) == ~IsSpace(c)

\* C19: the space-deletion transform makes one draw per maximal run of
\* whitespace, in order, and its output is its input without the runs whose
\* draw is below 0.15, every other run and every character that is not
\* whitespace being left as it is; the runs are independent, any set of them
\* being the set deleted under some draws.
C19_WholeRunsDeleted ==
    op = "removeSpaces" =>
        LET t == started.text
            runs == MaximalRuns(t)
        IN  /\ Len(StatementDraws) = Cardinality(runs)
            /\ result = WithoutRuns(t, {g \in runs : StatementDraws[RunRank(t, g)] < 15}, 1)
            /\ SelectSeq(result, NotSpace) = SelectSeq(t, NotSpace)
            /\ \A deleted \in SUBSET runs :
                  \E r \in RemoveSpacesLoop(t, 1, <<>>, <<>>) :
                      r.result = WithoutRuns(t, deleted, 1)

C19_Witness ==
    /\ op = "removeSpaces"
    /\ started.text = <<"d", " ", " ", "d">>
    /\ StatementDraws = <<5>>
    /\ result = <<"d", "d">>

\* the number of spaces of s
Spaces(s) == Cardinality({k \in DOMAIN s : s[k] = " "})

\* C20: the formatting pass inserts line breaks, then deletes whitespace,
\* then inserts spaces, each statement on the output of the one before and
\* on the draws that follow its draws.  So a line break the first statement
\* inserted can be deleted by the second, and what the pass returns is the
\* output of the third: every space the third inserted is in it.
C20_FixedOrder ==
    /\ op = "removeSpaces" =>
          /\ [result |-> started.text, rnd |-> started.rnd] \in LineBreakLoop(text, 1, <<>>, <<>>)
          /\ [result |-> result, rnd |-> rnd]
                \in RemoveSpacesLoop(started.text, 1, started.rnd, <<>>)
    /\ (op = "lineBreaks" /\ "\n" \in Introduced) =>
          \E r \in RemoveSpacesLoop(result, 1, rnd, <<>>) : "\n" \notin Range(r.result)
    /\ op = "format" =>
          /\ \E r1 \in LineBreakLoop(text, 1, <<>>, <<>>) :
                [result |-> started.text, rnd |-> started.rnd]
                    \in RemoveSpacesLoop(r1.result, 1, r1.rnd, <<>>)
          /\ [result |-> result, rnd |-> rnd]
                \in ExtraSpacesLoop(started.text, 1, started.rnd, <<>>)
          /\ Spaces(result) =
                Spaces(started.text)
                    + Cardinality({k \in DOMAIN StatementDraws : StatementDraws[k] < 8})
          /\ [result |-> result, rnd |-> rnd] \in FormatPassRuns[text]

C20_Witness ==
    /\ op = "format"
    /\ text = <<"d", " ", "d">>
    /\ started.text = <<"d", "d">>
    /\ rnd = <<5, 5, 5, 50>>
    /\ result = <<"d", " ", "d">>

-----------------------------------------------------------------------------
(* JSON values, as JSON.parse returns them and JSON.stringify writes them.  *)
(* An object is a function from the names of its own properties to values; *)
(* a property that is absent reads as undefined.                            *)

Str(chars) == [kind |-> "string", val |-> chars]

Null == [kind |-> "null", val |-> <<>>]

Undefined == [kind |-> "undefined", val |-> <<>>]

Arr(items) == [kind |-> "array", val |-> items]

Obj(props) == [kind |-> "object", val |-> props]

\* obj.key
Get(props, key) == IF key \in DOMAIN props THEN props[key] ELSE Undefined

\* the truthiness of a value: of these kinds only a non-empty string, an
\* array and an object are truthy
Truthy(v) ==
    \/ v.kind = "string" /\ v.val # <<>>
    \/ v.kind \in {"array", "object"}

\* JSON.stringify leaves out the properties of an object whose value is undefined
WithoutUndefined(props) ==
    [key \in {k \in DOMAIN props : props[k].kind # "undefined"} |-> props[key]]

-----------------------------------------------------------------------------
(* POST: the extraction route handler *)

\* the results introduceRealisticOCRErrors(chars) can return
CharPassResults(chars) == {r.result : r \in introduceRealisticOCRErrors(chars)}

\* the results addOCRFormattingIssues(introduceRealisticOCRErrors(chars)) can return
BothPassesResults(chars) == {r.result : r \in CharThenFormatting(chars)}

\* a wrong call: the sub-fields get the formatting pass as well
FieldNoiseWithFormatting(v) == {Str(out) : out \in BothPassesResults(v.val)}

\* introduceRealisticOCRErrors(med.name), and likewise for the other sub-fields
\* and for the doctor name
FieldNoise(v) == {Str(out) : out \in CharPassResults(v.val)}

\* a wrong guard: introduceRealisticOCRErrors(field || "")
NoiseOrEmpty(v) == IF Truthy(v) THEN FieldNoise(v) ELSE {Str(<<>>)}

\* field ? introduceRealisticOCRErrors(field) : field
NoiseIfTruthy(v) == IF Truthy(v) THEN FieldNoise(v) ELSE {v}

MedFields == {"name", "dosage", "frequency", "duration", "instructions"}

\* a wrong callback: the record is spread into the literal, ({ ...med, name: ... }),
\* so that its other properties are kept
MapMedicationSpread(med) ==
    {[key \in DOMAIN med.val \cup MedFields |->
        IF key \in MedFields THEN five[key] ELSE med.val[key]] :
        five \in {[name |-> n, dosage |-> d, frequency |-> f, duration |-> u, instructions |-> i] :
                    n \in NoiseIfTruthy(Get(med.val, "name")),
                    d \in NoiseIfTruthy(Get(med.val, "dosage")),
                    f \in NoiseIfTruthy(Get(med.val, "frequency")),
                    u \in NoiseIfTruthy(Get(med.val, "duration")),
                    i \in NoiseIfTruthy(Get(med.val, "instructions"))}}

\* The callback of parsedData.medications.map: the objects it can return for
\* one medication record, each with exactly the five properties of the literal.
MapMedication(med) ==
    {[name |-> n, dosage |-> d, frequency |-> f, duration |-> u, instructions |-> i] :
        n \in NoiseIfTruthy(Get(med.val, "name")),
        d \in NoiseIfTruthy(Get(med.val, "dosage")),
        f \in NoiseIfTruthy(Get(med.val, "frequency")),
        u \in NoiseIfTruthy(Get(med.val, "duration")),
        i \in NoiseIfTruthy(Get(med.val, "instructions"))}

\* reading a property of null throws a TypeError
MapThrows(meds) == \E k \in DOMAIN meds : meds[k].kind = "null"

\* parsedData.medications.map(...): the arrays it can return, no callback throwing
RECURSIVE MapMedications(_)
MapMedications(meds) ==
    IF meds = <<>> THEN {<<>>}
    ELSE {<<Obj(m)>> \o rest : m \in MapMedication(Head(meds)), rest \in MapMedications(Tail(meds))}

\* a wrong field list: the prescription date is corrupted like the doctor name
NoisePrescriptionDateToo == {"doctorName", "prescriptionDate"}

\* the top-level fields, other than text and medications, that are replaced by
\* their corrupted value when truthy
TopLevelNoiseFields == {"doctorName"}

\* parsedData.text && Array.isArray(parsedData.medications)
IsStructured(data) ==
    /\ Truthy(Get(data, "text"))
    /\ Get(data, "medications").kind = "array"

\* if (parsedData.doctorName) parsedData.doctorName = ...: the new values, by
\* field, of the top-level fields that are replaced
TopLevelNoise(data) ==
    LET keys == {k \in TopLevelNoiseFields \cap DOMAIN data : Truthy(data[k])}
    IN  {f \in [keys -> UNION {FieldNoise(data[k]) : k \in keys}] :
            \A k \in keys : f[k] \in FieldNoise(data[k])}

\* parsedData after the assignments of the structured branch: the objects it can be
CorruptStructured(data) ==
    {[key \in DOMAIN data |->
        CASE key = "text" -> Str(t)
          [] key = "medications" -> Arr(m)
          [] key \in DOMAIN top -> top[key]
          [] OTHER -> data[key]] :
        t \in BothPassesResults(data["text"].val),
        m \in MapMedications(data["medications"].val),
        top \in TopLevelNoise(data)}

\* NextResponse.json(parsedData): the body as JSON.stringify writes it, the
\* undefined properties of the object and of its medication records left out
JsonBody(data) ==
    WithoutUndefined(
        [key \in DOMAIN data |->
            IF data[key].kind = "array"
            THEN Arr([k \in DOMAIN data[key].val |->
                        IF data[key].val[k].kind = "object"
                        THEN Obj(WithoutUndefined(data[key].val[k].val))
                        ELSE data[key].val[k]])
            ELSE data[key]])

\* a message of an error response
Message(m) == [kind |-> "message", val |-> <<m>>]

\* the fallback object, for a corrupted raw text
FallbackBody(fallbackText) ==
    [text |-> Str(fallbackText), medications |-> Arr(<<>>),
     doctorName |-> Str(<<>>), prescriptionDate |-> Str(<<>>)]

\* extractedText.match(/\{[\s\S]*\}/): an opening brace with a closing one after it
HasJsonMatch(raw) ==
    \E i, j \in DOMAIN raw : i < j /\ raw[i] = "{" /\ raw[j] = "}"

-----------------------------------------------------------------------------
(* The requests and upstream replies the model runs POST on. *)

\* two medication records: between them every sub-field is once a non-empty
\* string, once null, empty or absent, and one record has a property that is
\* none of the five sub-fields
MedA ==
    Obj([name |-> Str(<<"d">>), dosage |-> Str(<<>>), frequency |-> Null,
         duration |-> Str(<<"5">>)])

MedB ==
    Obj([name |-> Null, dosage |-> Str(<<"O">>), frequency |-> Str(<<"8">>),
         instructions |-> Str(<<"Z">>), route |-> Str(<<"d">>)])

\* the elements of a medications array: a record, or null
MedItems == {MedA, MedB, Null}

RECURSIVE MedArraysUpTo(_)
MedArraysUpTo(n) ==
    IF n = 0 THEN {<<>>}
    ELSE LET shorter == MedArraysUpTo(n - 1)
         IN  shorter \cup {Append(l, m) : l \in {x \in shorter : Len(x) = n - 1}, m \in MedItems}

\* the object that has the properties of props that are not undefined
PresentOnly(props) ==
    [key \in {k \in DOMAIN props : props[k] # Undefined} |-> props[key]]

\* The objects JSON.parse returns: every field absent, null, empty or a
\* non-empty string, medications also an array, and possibly a top-level
\* field that is none of the four the handler knows.
ParsedInputs ==
    {PresentOnly([text |-> t, medications |-> m, doctorName |-> n,
                  prescriptionDate |-> p, notes |-> x]) :
        t \in {Undefined, Null, Str(<<>>), Str(<<"d">>)},
        m \in {Undefined, Null} \cup {Arr(l) : l \in MedArraysUpTo(MaxMeds)},
        n \in {Undefined, Null, Str(<<>>), Str(<<"1">>)},
        p \in {Undefined, Str(<<>>), Str(<<"8">>)},
        x \in {Undefined, Str(<<"d">>)}}

\* The text of the upstream reply, cut down to what the handler looks at: text
\* without a JSON object in it, or the braces that delimit one.  JSON.parse is
\* not modelled: on a matched text it throws or returns any of ParsedInputs.
RawTexts == {<<"d">>, <<"{", "}">>}

NoData == [k \in {} |-> Null]

\* how the upstream call can fail: fetch rejects, the status is not OK, the
\* body has no candidates, or the body is not JSON or its first candidate
\* has no text part (reading it throws)
UpstreamFailures == {"rejected", "notOk", "noCandidates", "malformed"}

UpstreamReplies ==
    {[kind |-> k, extractedText |-> <<>>, parse |-> "none", data |-> NoData] :
        k \in UpstreamFailures}
    \cup {[kind |-> "text", extractedText |-> raw, parse |-> "none", data |-> NoData] :
            raw \in {r \in RawTexts : ~HasJsonMatch(r)}}
    \cup {[kind |-> "text", extractedText |-> raw, parse |-> "throws", data |-> NoData] :
            raw \in {r \in RawTexts : HasJsonMatch(r)}}
    \cup {[kind |-> "text", extractedText |-> raw, parse |-> "object", data |-> d] :
            raw \in {r \in RawTexts : HasJsonMatch(r)}, d \in ParsedInputs}

PassIdle ==
    /\ text = <<>>
    /\ op = "idle"
    /\ rnd = <<>>
    /\ result = <<>>
    /\ started = Entered(<<>>)

PostInit ==
    /\ request \in {"invalid", "noImage", "image"}
    /\ apiKey \in BOOLEAN
    /\ pc = "start"
    /\ fetches = 0
    /\ reply = [kind |-> "none"]
    /\ returnAt = 0
    /\ response = [status |-> 0, body |-> <<>>]
    /\ PassIdle
    /\ calls = <<>>
    /\ AppIdle

\* a wrong return: the status is left out, so it is 200
ReturnOk(line, status, body) ==
    /\ pc' = "done"
    /\ returnAt' = line
    /\ response' = [status |-> 200, body |-> body]

Return(line, status, body) ==
    /\ pc' = "done"
    /\ returnAt' = line
    /\ response' = [status |-> status, body |-> body]

FailedToExtract == [error |-> Message("Failed to extract text from image")]

\* a wrong order: the API key is checked before the image
POST_StartKeyFirst ==
    /\ pc = "start"
    /\ IF request = "invalid"
       THEN Return(349, 500, FailedToExtract) /\ UNCHANGED fetches
       ELSE IF ~apiKey
       THEN Return(220, 500, [error |-> Message("Gemini API key not configured")])
            /\ UNCHANGED fetches
       ELSE IF request = "noImage"
       THEN Return(215, 400, [error |-> Message("No image provided")]) /\ UNCHANGED fetches
       ELSE /\ pc' = "fetching"
            /\ fetches' = fetches + 1
            /\ UNCHANGED <<returnAt, response>>
    /\ UNCHANGED <<request, apiKey, reply, passVars, calls, appVars>>

\* POST up to its call of fetch: the request body is read, the image and the
\* API key are checked in this order, and the request is sent upstream.
POST_Start ==
    /\ pc = "start"
    /\ IF request = "invalid"
       THEN Return(349, 500, FailedToExtract) /\ UNCHANGED fetches
       ELSE IF request = "noImage"
       THEN Return(215, 400, [error |-> Message("No image provided")]) /\ UNCHANGED fetches
       ELSE IF ~apiKey
       THEN Return(220, 500, [error |-> Message("Gemini API key not configured")])
            /\ UNCHANGED fetches
       ELSE /\ pc' = "fetching"
            /\ fetches' = fetches + 1
            /\ UNCHANGED <<returnAt, response>>
    /\ UNCHANGED <<request, apiKey, reply, passVars, calls, appVars>>

\* a wrong handler: a failed upstream call is made once more
FetchRetried ==
    /\ pc = "fetching"
    /\ reply' \in UpstreamReplies
    /\ IF reply'.kind \in UpstreamFailures /\ fetches < 2
       THEN pc' = "fetching" /\ fetches' = fetches + 1
       ELSE pc' = "fetched" /\ UNCHANGED fetches
    /\ UNCHANGED <<request, apiKey, returnAt, response, passVars, calls, appVars>>

\* the upstream call ends: fetch rejects, or the endpoint answers
FetchSettles ==
    /\ pc = "fetching"
    /\ reply' \in UpstreamReplies
    /\ pc' = "fetched"
    /\ UNCHANGED <<request, apiKey, fetches, returnAt, response, passVars, calls, appVars>>

\* a wrong fallback: a text that cannot be parsed is reported as an error
ReturnParseError == Return(349, 500, FailedToExtract)

\* the fallback: the whole extracted text through both passes
ReturnFallback ==
    \E out \in BothPassesResults(reply.extractedText) :
        Return(341, 200, FallbackBody(out))

\* POST from the settled fetch to its return statement
POST_Finish ==
    /\ pc = "fetched"
    /\ IF reply.kind \in UpstreamFailures
       THEN Return(349, 500, FailedToExtract)
       ELSE IF /\ HasJsonMatch(reply.extractedText)
               /\ reply.parse = "object"
               /\ IsStructured(reply.data)
               /\ ~MapThrows(reply.data["medications"].val)
       THEN \E data \in CorruptStructured(reply.data) :
                Return(331, 200, JsonBody(data))
       ELSE ReturnFallback
    /\ UNCHANGED <<request, apiKey, fetches, reply, passVars, calls, appVars>>

PostNext ==
    \/ POST_Start
    \/ FetchSettles
    \/ POST_Finish

SpecPOST == PostInit /\ [][PostNext]_vars

-----------------------------------------------------------------------------
(* Properties of POST on a structured extraction result. *)

\* POST has returned, and what it received parsed to an object with a truthy
\* text and an array of medication records
ReceivedStructured ==
    /\ pc = "done"
    /\ reply.kind = "text"
    /\ reply.parse = "object"
    /\ Truthy(Get(reply.data, "text"))
    /\ Get(reply.data, "medications").kind = "array"
    /\ \A k \in DOMAIN reply.data["medications"].val :
          reply.data["medications"].val[k].kind = "object"

\* the medication records POST received and the ones it returned
MedsIn == reply.data["medications"].val

MedsOut == response.body["medications"].val

\* C3: on a valid structured extraction result the returned text is a result
\* of the character-level pass followed by the formatting pass on the text
\* received, and every non-empty medication sub-field and a non-empty
\* doctorName are returned as a result of the character-level pass alone on
\* the value received.
C3_PassesPerField ==
    ReceivedStructured =>
        /\ returnAt = 331
        /\ response.body["text"].kind = "string"
        /\ response.body["text"].val \in BothPassesResults(reply.data["text"].val)
        /\ Len(MedsOut) = Len(MedsIn)
        /\ \A k \in DOMAIN MedsIn : \A f \in MedFields :
              Truthy(Get(MedsIn[k].val, f)) =>
                  /\ Get(MedsOut[k].val, f).kind = "string"
                  /\ Get(MedsOut[k].val, f).val \in CharPassResults(MedsIn[k].val[f].val)
        /\ Truthy(Get(reply.data, "doctorName")) =>
              /\ response.body["doctorName"].kind = "string"
              /\ response.body["doctorName"].val
                    \in CharPassResults(reply.data["doctorName"].val)

C3_Witness ==
    /\ ReceivedStructured
    /\ reply.data["text"] = Str(<<"d">>)
    /\ response.body["text"] = Str(<<"d", " ", "d">>)
    /\ MedsIn = <<MedA, MedB>>
    /\ MedsOut[1].val["name"] = Str(<<"d", "d">>)
    /\ MedsOut[2].val["frequency"] = Str(<<"B">>)
    /\ Get(reply.data, "doctorName") = Str(<<"1">>)
    /\ response.body["doctorName"] = Str(<<"l">>)

\* C4: on the structured path the prescriptionDate returned is the one
\* received (absent when it was absent), whatever the draws.
C4_PrescriptionDateUntouched ==
    (pc = "done" /\ returnAt = 331) =>
        Get(response.body, "prescriptionDate") = Get(reply.data, "prescriptionDate")

C4_Witness ==
    /\ pc = "done"
    /\ returnAt = 331
    /\ Get(reply.data, "prescriptionDate") = Str(<<"8">>)
    /\ Get(response.body, "prescriptionDate") = Str(<<"8">>)
    /\ response.body["text"] # reply.data["text"]
    /\ Get(reply.data, "doctorName") = Str(<<"1">>)
    /\ response.body["doctorName"] = Str(<<"l">>)

\* C5: a medication sub-field or doctorName that is received null, empty or
\* absent is returned as the same value (absent when absent), while the
\* non-empty sub-fields of the same record are returned as strings made of
\* their characters dropped, kept, doubled or substituted in order.
C5_FalsyFieldsPassThrough ==
    (pc = "done" /\ returnAt = 331) =>
        /\ \A k \in DOMAIN MedsIn : \A f \in MedFields :
              IF Truthy(Get(MedsIn[k].val, f))
              THEN /\ Get(MedsOut[k].val, f).kind = "string"
                   /\ Chunked(MedsIn[k].val[f].val, Get(MedsOut[k].val, f).val)
              ELSE Get(MedsOut[k].val, f) = Get(MedsIn[k].val, f)
        /\ ~Truthy(Get(reply.data, "doctorName")) =>
              Get(response.body, "doctorName") = Get(reply.data, "doctorName")

C5_Witness ==
    /\ pc = "done"
    /\ returnAt = 331
    /\ MedsIn = <<MedA>>
    /\ MedsOut = << Obj([name |-> Str(<<"d", "d">>), dosage |-> Str(<<>>),
                         frequency |-> Null, duration |-> Str(<<"S">>)]) >>
    /\ Get(reply.data, "doctorName") = Null
    /\ Get(response.body, "doctorName") = Null

\* C6, as claimed: the object returned has the top-level fields of the one
\* received, as many medication records, and each record returned has
\* exactly the fields of the record received at the same index.
C6_SameFieldsAsInput ==
    (pc = "done" /\ returnAt = 331) =>
        /\ DOMAIN response.body = DOMAIN reply.data
        /\ Len(MedsOut) = Len(MedsIn)
        /\ \A k \in DOMAIN MedsIn : DOMAIN MedsOut[k].val = DOMAIN MedsIn[k].val

\* C6, amended: the object returned has the top-level fields of the one
\* received and as many medication records, in the same order, and each
\* record returned has exactly those of the five sub-fields (name, dosage,
\* frequency, duration, instructions) that the record received has, each of
\* the kind (string or null) received; any other field of a record is
\* left out.
C6_SameShapeOnKnownFields ==
    (pc = "done" /\ returnAt = 331) =>
        /\ DOMAIN response.body = DOMAIN reply.data
        /\ \A key \in DOMAIN reply.data : response.body[key].kind = reply.data[key].kind
        /\ Len(MedsOut) = Len(MedsIn)
        /\ \A k \in DOMAIN MedsIn :
              /\ MedsOut[k].kind = "object"
              /\ DOMAIN MedsOut[k].val = DOMAIN MedsIn[k].val \cap MedFields
              /\ \A f \in DOMAIN MedsOut[k].val :
                    MedsOut[k].val[f].kind = MedsIn[k].val[f].kind

C6_Witness ==
    /\ pc = "done"
    /\ returnAt = 331
    /\ MedsIn = <<MedB, MedA>>
    /\ DOMAIN MedsOut[1].val = {"name", "dosage", "frequency", "instructions"}
    /\ DOMAIN MedsOut[2].val = {"name", "dosage", "frequency", "duration"}
    /\ DOMAIN reply.data = {"text", "medications", "notes"}
    /\ DOMAIN response.body = {"text", "medications", "notes"}

\* the upstream text holds no JSON object
NoJsonObject == reply.parse = "none"

\* JSON.parse throws on the matched text
ParseThrows == reply.parse = "throws"

\* the parsed object passes the validation and has a null among its
\* medications, reading a field of which throws
ProcessingThrows ==
    /\ reply.parse = "object"
    /\ Truthy(Get(reply.data, "text"))
    /\ Get(reply.data, "medications").kind = "array"
    /\ \E k \in DOMAIN MedsIn : MedsIn[k] = Null

\* C14: when the upstream text has no JSON object in it, or JSON.parse
\* throws on it, or processing the parsed object throws, POST answers with
\* status 200 and an object whose text is a result of the two passes on the
\* whole upstream text, whose medications are empty and whose doctorName and
\* prescriptionDate are the empty string; it answers with no error.
C14_UnparsableFallsBack ==
    (pc = "done" /\ reply.kind = "text" /\ (NoJsonObject \/ ParseThrows \/ ProcessingThrows)) =>
        /\ response.status = 200
        /\ DOMAIN response.body = {"text", "medications", "doctorName", "prescriptionDate"}
        /\ response.body["text"].kind = "string"
        /\ response.body["text"].val \in BothPassesResults(reply.extractedText)
        /\ response.body["medications"] = Arr(<<>>)
        /\ response.body["doctorName"] = Str(<<>>)
        /\ response.body["prescriptionDate"] = Str(<<>>)

C14_Witness ==
    /\ pc = "done"
    /\ reply.kind = "text"
    /\ ProcessingThrows
    /\ reply.extractedText = <<"{", "}">>
    /\ response.status = 200
    /\ response.body["text"] = Str(<<"{", "{", "}">>)

\* C15: when the upstream call fails (the API key is missing, fetch rejects,
\* the status is not OK or the answer has no candidates) POST answers with
\* status 500 and an object with an error field, and with no extraction
\* result; a request without an image is answered with status 400 and an
\* object with an error field.
C15_UpstreamFailureIsError ==
    pc = "done" =>
        /\ (request = "image" /\ (~apiKey \/ reply.kind \in UpstreamFailures)) =>
              /\ response.status = 500
              /\ "error" \in DOMAIN response.body
              /\ DOMAIN response.body \cap {"text", "medications"} = {}
        /\ request = "noImage" =>
              /\ response.status = 400
              /\ "error" \in DOMAIN response.body

C15_Witness ==
    /\ pc = "done"
    /\ request = "image"
    /\ apiKey
    /\ reply.kind = "notOk"
    /\ response.status = 500
    /\ response.body = FailedToExtract

\* the parsed object has a list of medication records and a text that is
\* empty, null or absent
ReceivedWithoutText ==
    /\ pc = "done"
    /\ reply.kind = "text"
    /\ reply.parse = "object"
    /\ ~Truthy(Get(reply.data, "text"))
    /\ Get(reply.data, "medications").kind = "array"
    /\ \A k \in DOMAIN MedsIn : MedsIn[k].kind = "object"

\* C21, as claimed: when the parsed object has a list of medications and a
\* text that is empty, null or absent, POST returns the text as received, as
\* many medication records as received, each non-empty sub-field a result of
\* the character-level pass, and the doctorName likewise.
C21_EmptyTextKeepsMedications ==
    ReceivedWithoutText =>
        /\ Get(response.body, "text") = Get(reply.data, "text")
        /\ Get(response.body, "medications").kind = "array"
        /\ Len(MedsOut) = Len(MedsIn)
        /\ \A k \in DOMAIN MedsIn : \A f \in MedFields :
              Truthy(Get(MedsIn[k].val, f)) =>
                  Get(MedsOut[k].val, f).val \in CharPassResults(MedsIn[k].val[f].val)
        /\ Truthy(Get(reply.data, "doctorName")) =>
              Get(response.body, "doctorName").val
                  \in CharPassResults(reply.data["doctorName"].val)

\* C22: in every execution of POST at most one request is sent upstream;
\* when the upstream call has failed POST has answered with an error and
\* that one request is the only one sent.
C22_AtMostOneUpstreamRequest ==
    /\ fetches <= 1
    /\ (pc = "done" /\ reply.kind \in UpstreamFailures) =>
          /\ fetches = 1
          /\ response.status = 500
          /\ "error" \in DOMAIN response.body

C22_Witness ==
    /\ pc = "done"
    /\ reply.kind = "rejected"
    /\ fetches = 1
    /\ returnAt = 349

\* C23: POST checks the image, then the API key, and only then sends the
\* upstream request: no request is sent when the image is missing or the
\* key is not set, and a request that lacks both is answered 400 "No image
\* provided", not with the 500 of the missing key.
C23_ImageThenKeyThenFetch ==
    /\ (request = "noImage" \/ ~apiKey) => fetches = 0
    /\ fetches > 0 => (request = "image" /\ apiKey)
    /\ (pc = "done" /\ request = "noImage") =>
          /\ response.status = 400
          /\ response.body = [error |-> Message("No image provided")]
    /\ (pc = "done" /\ request = "image" /\ ~apiKey) =>
          /\ response.status = 500
          /\ response.body = [error |-> Message("Gemini API key not configured")]

C23_Witness ==
    /\ pc = "done"
    /\ request = "noImage"
    /\ ~apiKey
    /\ returnAt = 215
    /\ response.status = 400
    /\ fetches = 0

-----------------------------------------------------------------------------
(* Two invocations of the noise passes, interleaved.  An invocation of the  *)
(* character-level pass advances by one iteration of its loop, one of the   *)
(* formatting pass by one of its three statements; between two steps of one *)
(* the other may take any number of steps.                                  *)

\* longest input string of an interleaved invocation
MaxInterleavedLen == 1

\* inputs of an interleaved character-level pass: the bounded strings of a
\* character without a table entry, and one of two characters, one with an
\* entry
InterleavedCharInputs == StringsUpTo({"d"}, MaxInterleavedLen) \cup {<<"d", "1">>}

\* inputs of an interleaved formatting pass
InterleavedFormatInputs == StringsUpTo({"d", " "}, MaxInterleavedLen)

\* An invocation that has not run yet: at is the index of the next character
\* of the loop (character-level pass) or the number of the next statement
\* (formatting pass), result the local variable of that name, mixed whether
\* a step of the invocation was taken while the other was in progress.
Invoked(fn, t) ==
    [fn |-> fn, text |-> t, at |-> 1, rnd |-> <<>>,
     result |-> IF fn = "char" THEN <<>> ELSE t, mixed |-> FALSE]

Invocations ==
    {Invoked("char", t) : t \in InterleavedCharInputs}
        \cup {Invoked("format", t) : t \in InterleavedFormatInputs}

Returned(c) ==
    \/ c.fn = "char" /\ c.at > Len(c.text)
    \/ c.fn = "format" /\ c.at > 3

InProgress(c) == c.at > 1 /\ ~Returned(c)

Other(i) == 3 - i

\* a wrong declaration: result is one variable of the module, which every
\* invocation reads and writes
ModuleLevel(i) == 1

\* let result: a variable of the invocation that declares it
Local(i) == i

\* the statement of addOCRFormattingIssues numbered at, applied to t
Statement(at, t, drawn) ==
    CASE at = 1 -> LineBreakLoop(t, 1, drawn, <<>>)
      [] at = 2 -> RemoveSpacesLoop(t, 1, drawn, <<>>)
      [] at = 3 -> ExtraSpacesLoop(t, 1, drawn, <<>>)

Advance(i, r) ==
    calls' = [calls EXCEPT ![i].at = @ + 1,
                           ![i].rnd = r.rnd,
                           ![i].mixed = @ \/ InProgress(calls[Other(i)]),
                           ![Local(i)].result = r.result]

\* one iteration of the loop of introduceRealisticOCRErrors in invocation i
CharIteration(i) ==
    LET c == calls[i] IN
    /\ c.fn = "char"
    /\ ~Returned(c)
    /\ \E r \in CharLoop(<<c.text[c.at]>>, 1, c.rnd, calls[Local(i)].result) :
         Advance(i, r)
    /\ UNCHANGED <<passVars, postVars, appVars>>

\* one statement of addOCRFormattingIssues in invocation i
FormatStatement(i) ==
    LET c == calls[i] IN
    /\ c.fn = "format"
    /\ ~Returned(c)
    /\ \E r \in Statement(c.at, calls[Local(i)].result, c.rnd) :
         Advance(i, r)
    /\ UNCHANGED <<passVars, postVars, appVars>>

InterleavedInit ==
    /\ calls \in {<<c1, c2>> : c1 \in Invocations, c2 \in Invocations}
    /\ PassIdle
    /\ PostIdle
    /\ AppIdle

InterleavedNext ==
    \E i \in 1..2 :
        \/ CharIteration(i)
        \/ FormatStatement(i)

SpecInterleaved == InterleavedInit /\ [][InterleavedNext]_vars

\* the runs of the pass of invocation c on its input, called alone
RunsAlone(c) ==
    IF c.fn = "char" THEN introduceRealisticOCRErrors(c.text)
    ELSE addOCRFormattingIssues(c.text)

\* C13: when two invocations of the character-level or formatting pass are
\* interleaved, what each returns, with the draws it made, is a run of its
\* pass on its own input alone: the other invocation has no influence on it.
C13_InterleavedAsAlone ==
    \A i \in DOMAIN calls :
        Returned(calls[i]) =>
            [result |-> calls[i].result, rnd |-> calls[i].rnd] \in RunsAlone(calls[i])

C13_Witness ==
    /\ calls # <<>>
    /\ \A i \in 1..2 : Returned(calls[i]) /\ calls[i].mixed
    /\ calls[1].fn = "char" /\ calls[1].text = <<"d", "1">> /\ calls[1].result = <<"d", "d", "l">>
    /\ calls[2].fn = "format" /\ calls[2].text = <<"d">> /\ calls[2].result = <<"d", " ">>

-----------------------------------------------------------------------------
(* PrescriptionUploader: the state of the component, the handlers the page  *)
(* offers and the steps of handleSave between its awaits.  A handler reads  *)
(* the state of the render it was created in, so handleSave works on the    *)
(* file and the extracted data it held when the button was pressed.         *)

\* most presses of the save button in one behaviour
MaxSaves == 2

Files == {"a", "b"}

\* what an extraction can return, as far as handleSave looks at it: no
\* medications, medications none of which has a name, medications with names
Extractions == {"noMeds", "unnamed", "named"}

NoSave == [upload |-> "none", row |-> "none", meds |-> "none"]

UploaderInit ==
    /\ uploader \in
          {[user |-> u, configured |-> c, file |-> "none", reading |-> "none",
            preview |-> "none", extractedData |-> "none", title |-> "",
            loading |-> FALSE, error |-> "", success |-> FALSE,
            pc |-> "idle", held |-> "none", heldData |-> "none", saves |-> 0,
            timers |-> 0, last |-> NoSave, finished |-> FALSE,
            picked |-> "none", resetOver |-> "none"] :
              u \in BOOLEAN, c \in BOOLEAN}
    /\ uploader.user => uploader.configured
    /\ records = Unused
    /\ auth = Unused
    /\ profiles = Unused
    /\ PassIdle
    /\ PostIdle
    /\ calls = <<>>

\* the component after a step: the marks of a handler that has just
\* finished are taken down
Stepped == [uploader EXCEPT !.finished = FALSE, !.resetOver = "none"]

UploaderFrame == UNCHANGED <<passVars, postVars, calls, records, auth, profiles>>

\* a file is chosen in the file input or dropped on the page, both shown
\* while no file is held
HandleFileSelect(f) ==
    /\ uploader.file = "none"
    /\ uploader' = [Stepped EXCEPT !.file = f, !.error = "", !.success = FALSE,
                                   !.extractedData = "none", !.reading = f,
                                   !.title = "t",
                                   !.picked = IF uploader.timers > 0 THEN f ELSE @]
    /\ UploaderFrame

\* reader.onload: the preview of the file read
ReaderLoads ==
    /\ uploader.reading # "none"
    /\ uploader' = [Stepped EXCEPT !.preview = uploader.reading, !.reading = "none"]
    /\ UploaderFrame

\* the button that removes the file shown
RemoveFile ==
    /\ uploader.file # "none"
    /\ uploader' = [Stepped EXCEPT !.file = "none", !.preview = "none",
                                   !.extractedData = "none"]
    /\ UploaderFrame

\* the title input, shown with the extracted data
SetTitle(t) ==
    /\ uploader.extractedData # "none"
    /\ uploader' = [Stepped EXCEPT !.title = t]
    /\ UploaderFrame

\* handleExtract up to its first await; the button is shown for a file
\* without extracted data while nothing is loading
HandleExtract ==
    /\ uploader.pc = "idle"
    /\ uploader.file # "none" /\ uploader.extractedData = "none" /\ ~uploader.loading
    /\ IF ~uploader.user THEN uploader' = Stepped
       ELSE uploader' = [Stepped EXCEPT !.loading = TRUE, !.error = "", !.pc = "extracting"]
    /\ UploaderFrame

\* the rest of handleExtract: the extraction succeeded or threw
ExtractSettles ==
    /\ uploader.pc = "extracting"
    /\ \/ \E d \in Extractions :
            uploader' = [Stepped EXCEPT !.extractedData = d, !.loading = FALSE, !.pc = "idle"]
       \/ uploader' = [Stepped EXCEPT !.error = "Failed to extract text",
                                      !.loading = FALSE, !.pc = "idle"]
    /\ UploaderFrame

\* the end of the try block of handleSave and its finally: setSuccess(true),
\* the reset is scheduled, setLoading(false)
SaveSucceeds(u) ==
    [u EXCEPT !.success = TRUE, !.timers = @ + 1, !.loading = FALSE,
              !.pc = "idle", !.finished = TRUE, !.picked = "none"]

\* the catch block of handleSave and its finally
SaveFails(u, message) ==
    [u EXCEPT !.error = message, !.loading = FALSE, !.pc = "idle", !.finished = TRUE]

\* handleSave up to its first await; the button is shown with the extracted
\* data and enabled while nothing is loading and the title is not blank
HandleSave ==
    /\ uploader.pc = "idle"
    /\ uploader.saves < MaxSaves
    /\ uploader.extractedData # "none" /\ ~uploader.loading /\ uploader.title # ""
    /\ LET u == [Stepped EXCEPT !.saves = @ + 1, !.last = NoSave] IN
       IF ~uploader.user
       THEN uploader' = [u EXCEPT !.finished = TRUE]
       ELSE IF ~uploader.configured
       THEN uploader' = SaveFails(u, "Supabase environment variables are not configured")
       ELSE uploader' =
              [u EXCEPT !.loading = TRUE, !.error = "",
                        !.held = uploader.file, !.heldData = uploader.extractedData,
                        !.last.upload = IF uploader.file = "none" THEN "skipped" ELSE "none",
                        !.pc = IF uploader.file = "none" THEN "inserting" ELSE "listing"]
    /\ UploaderFrame

\* supabase.storage.listBuckets() settles: it throws, or the bucket is not
\* among the buckets, or it is
SaveBucketsListed ==
    /\ uploader.pc = "listing"
    /\ \/ uploader' = [Stepped EXCEPT !.last.upload = "failed", !.pc = "inserting"]
       \/ uploader' = [Stepped EXCEPT !.last.upload = "skipped", !.pc = "inserting"]
       \/ uploader' = [Stepped EXCEPT !.pc = "uploading"]
    /\ UploaderFrame

\* the upload settles: the image is stored, or the upload fails
SaveUploaded ==
    /\ uploader.pc = "uploading"
    /\ \E outcome \in {"stored", "failed"} :
         uploader' = [Stepped EXCEPT !.last.upload = outcome, !.pc = "inserting"]
    /\ UploaderFrame

\* the insert of the prescription row settles, with a row or with an error
SavePrescriptionInserted ==
    /\ uploader.pc = "inserting"
    /\ \/ LET u == [Stepped EXCEPT !.last.row = "ok"] IN
          IF uploader.heldData = "named"
          THEN uploader' = [u EXCEPT !.pc = "insertingMeds"]
          ELSE uploader' = SaveSucceeds(u)
       \/ uploader' = SaveFails([Stepped EXCEPT !.last.row = "error"], "Database error")
    /\ UploaderFrame

\* the insert of the medication rows settles, with or without an error
SaveMedicationsInserted ==
    /\ uploader.pc = "insertingMeds"
    /\ \E outcome \in {"ok", "error"} :
         uploader' = SaveSucceeds([Stepped EXCEPT !.last.meds = outcome])
    /\ UploaderFrame

\* the callback of setTimeout runs
ResetFires ==
    /\ uploader.timers > 0
    /\ uploader' = [Stepped EXCEPT !.file = "none", !.preview = "none",
                                   !.extractedData = "none", !.title = "",
                                   !.success = FALSE, !.timers = @ - 1,
                                   !.resetOver = uploader.picked, !.picked = "none"]
    /\ UploaderFrame

UploaderNext ==
    \/ \E f \in Files : HandleFileSelect(f)
    \/ ReaderLoads
    \/ RemoveFile
    \/ \E t \in {"", "t"} : SetTitle(t)
    \/ HandleExtract
    \/ ExtractSettles
    \/ HandleSave
    \/ SaveBucketsListed
    \/ SaveUploaded
    \/ SavePrescriptionInserted
    \/ SaveMedicationsInserted
    \/ ResetFires

SpecUploader == UploaderInit /\ [][UploaderNext]_vars

\* C25, as claimed: when handleSave finishes, loading is false and success
\* is set exactly if the insert of the prescription row succeeded, whatever
\* became of the upload and of the medications insert; if the insert of the
\* row failed the error is set and no medications insert was attempted.
C25_SuccessIffRowInserted ==
    uploader.finished =>
        /\ ~uploader.loading
        /\ uploader.success <=> uploader.last.row = "ok"
        /\ uploader.last.row = "error" =>
              (uploader.error # "" /\ uploader.last.meds = "none")

\* C26, as claimed: a file selected between a successful save and the
\* firing of its reset is still the selected file when the reset has fired.
C26_ResetKeepsNewerSelection ==
    uploader.resetOver # "none" => uploader.file = uploader.resetOver

-----------------------------------------------------------------------------
\* RecordsPage: the list of prescriptions held by the page and
\* deletePrescription, one step per await.

MaxRows == 3
MaxDeletes == 2

PrescriptionIds == 1..MaxRows

RECURSIVE Filter(_, _)
\* prescriptions.filter((p) => p.id !== id)
Filter(list, id) ==
    IF list = <<>> THEN <<>>
    ELSE IF Head(list) = id THEN Filter(Tail(list), id)
    ELSE <<Head(list)>> \o Filter(Tail(list), id)

RECURSIVE Ordered(_)
\* the lists a fetch can have loaded: rows in the order of the query
Ordered(n) ==
    IF n = 0 THEN {<<>>}
    ELSE Ordered(n - 1) \cup {list \o <<n>> : list \in Ordered(n - 1)}

\* prescriptions: the state of the page; rows: the table at the backend;
\* deletes: the calls of deletePrescription, each with the list its render held
RecordsInit ==
    /\ records \in {[prescriptions |-> list, rows |-> {list[i] : i \in DOMAIN list},
                      deletes |-> <<>>, deleted |-> {}] :
                         list \in Ordered(MaxRows) \ {<<>>}}
    /\ uploader = Unused /\ auth = Unused /\ profiles = Unused
    /\ PassIdle /\ PostIdle /\ calls = <<>>

RecordsFrame == UNCHANGED <<passVars, postVars, calls, uploader, auth, profiles>>

\* the list that deletePrescription filters: the one of the render that
\* created the handler
Closed(delete) == delete.prescriptions

\* deletePrescription up to its await: the user confirms and the request is sent
DeletePrescription(id) ==
    /\ Len(records.deletes) < MaxDeletes
    /\ \E i \in DOMAIN records.prescriptions : records.prescriptions[i] = id
    /\ records' = [records EXCEPT
           !.deletes = Append(@, [id |-> id, prescriptions |-> records.prescriptions,
                                  settled |-> FALSE])]
    /\ RecordsFrame

\* the user does not confirm
DeleteDeclined(id) ==
    /\ \E i \in DOMAIN records.prescriptions : records.prescriptions[i] = id
    /\ UNCHANGED records
    /\ RecordsFrame

\* the request settles without an error: the row is gone and the list is set
DeleteSucceeds(n) ==
    /\ n \in DOMAIN records.deletes
    /\ ~records.deletes[n].settled
    /\ LET delete == records.deletes[n] IN
       records' = [records EXCEPT
           !.rows = @ \ {delete.id},
           !.deleted = @ \cup {delete.id},
           !.prescriptions = Filter(Closed(delete), delete.id),
           !.deletes[n].settled = TRUE]
    /\ RecordsFrame

\* the request settles with an error, or is rejected: only logged
DeleteFails(n) ==
    /\ n \in DOMAIN records.deletes
    /\ ~records.deletes[n].settled
    /\ records' = [records EXCEPT !.deletes[n].settled = TRUE]
    /\ RecordsFrame

RecordsNext ==
    \/ \E id \in PrescriptionIds : DeletePrescription(id)
    \/ \E id \in PrescriptionIds : DeleteDeclined(id)
    \/ \E n \in 1..MaxDeletes : DeleteSucceeds(n)
    \/ \E n \in 1..MaxDeletes : DeleteFails(n)

SpecRecords == RecordsInit /\ [][RecordsNext]_vars

\* C27, as claimed: a prescription whose deletion succeeded at the backend
\* is not in the list held by the page, also when two deletions were
\* started before either completed.
C27_DeletedNeverListed ==
    \A i \in DOMAIN records.prescriptions :
        records.prescriptions[i] \notin records.deleted

-----------------------------------------------------------------------------
\* AuthProvider: the user held by the context, the listener for auth
\* changes, and signOut, one step per await.

MaxSignOuts == 2

Users == {"u1", "u2", "u3"}

\* what await supabase.auth.signOut() can do: resolve without an error,
\* resolve with an error in its result (which signOut does not read), or throw
SignOutOutcomes == {"ok", "error", "throws"}

AuthInit ==
    /\ auth \in {[configured |-> c, user |-> "none", loading |-> TRUE, mounted |-> FALSE,
                   pc |-> "idle", userAtCall |-> "none", signOuts |-> 0,
                   outcome |-> "none", redirected |-> FALSE, finished |-> FALSE] :
                      c \in BOOLEAN}
    /\ uploader = Unused /\ records = Unused /\ profiles = Unused
    /\ PassIdle /\ PostIdle /\ calls = <<>>

AuthFrame == UNCHANGED <<passVars, postVars, calls, uploader, records, profiles>>

AuthStepped == [auth EXCEPT !.finished = FALSE]

\* the effect of AuthProvider up to the await of getSession
Mount ==
    /\ ~auth.mounted
    /\ auth' = IF auth.configured
               THEN [AuthStepped EXCEPT !.mounted = TRUE, !.pc = "gettingSession"]
               ELSE [AuthStepped EXCEPT !.mounted = TRUE, !.loading = FALSE]
    /\ AuthFrame

\* getSession settles with a session, without one, or throws
GetSessionSettles ==
    /\ auth.pc = "gettingSession"
    /\ \E u \in Users \cup {"none"} :
         auth' = [AuthStepped EXCEPT !.user = u, !.loading = FALSE, !.pc = "idle"]
    /\ AuthFrame

\* the callback of onAuthStateChange
AuthStateChange(u) ==
    /\ auth.mounted /\ auth.configured
    /\ auth' = [AuthStepped EXCEPT !.user = u, !.loading = FALSE]
    /\ AuthFrame

\* signOut up to its await
SignOut ==
    /\ auth.mounted
    /\ auth.pc = "idle"
    /\ auth.signOuts < MaxSignOuts
    /\ LET called == [AuthStepped EXCEPT !.userAtCall = auth.user, !.outcome = "none",
                                         !.redirected = FALSE] IN
       auth' = IF ~auth.configured
               THEN [called EXCEPT !.finished = TRUE]
               ELSE [called EXCEPT !.signOuts = @ + 1, !.pc = "signingOut"]
    /\ AuthFrame

\* a wrong signOut: the catch block leaves the user in place
SignOutKeepsUserOnThrow(outcome) ==
    /\ auth.pc = "signingOut"
    /\ auth' = IF outcome = "throws"
               THEN [AuthStepped EXCEPT !.pc = "idle", !.outcome = outcome,
                                        !.finished = TRUE]
               ELSE [AuthStepped EXCEPT !.user = "none", !.redirected = TRUE,
                                        !.pc = "idle", !.outcome = outcome,
                                        !.finished = TRUE]
    /\ AuthFrame

\* the await of signOut settles: setUser(null) and router.push("/") after a
\* call that resolved, setUser(null) alone in the catch block
SignOutSettles(outcome) ==
    /\ auth.pc = "signingOut"
    /\ auth' = IF outcome = "throws"
               THEN [AuthStepped EXCEPT !.user = "none", !.pc = "idle",
                                        !.outcome = outcome, !.finished = TRUE]
               ELSE [AuthStepped EXCEPT !.user = "none", !.redirected = TRUE,
                                        !.pc = "idle", !.outcome = outcome,
                                        !.finished = TRUE]
    /\ AuthFrame

AuthNext ==
    \/ Mount
    \/ GetSessionSettles
    \/ \E u \in Users \cup {"none"} : AuthStateChange(u)
    \/ SignOut
    \/ \E outcome \in SignOutOutcomes : SignOutSettles(outcome)

SpecAuth == AuthInit /\ [][AuthNext]_vars

\* C28, as claimed: signOut redirects to the home page only when the
\* backend sign-out succeeded.
C28_RedirectOnlyOnSuccess ==
    (auth.finished /\ auth.redirected) => auth.outcome = "ok"

\* C28, amended: when signOut finishes with the backend configured the user
\* is cleared whatever the call did, and the page is redirected exactly when
\* the call did not throw, also when it resolved with an error; without a
\* configured backend signOut leaves the user as it was, calls nothing and
\* does not redirect.
C28_SignOutClearsUser ==
    auth.finished =>
        IF auth.configured
        THEN auth.user = "none" /\ (auth.redirected <=> auth.outcome # "throws")
        ELSE auth.user = auth.userAtCall /\ auth.signOuts = 0 /\ ~auth.redirected

C28_Witness ==
    /\ auth.finished /\ auth.configured
    /\ auth.userAtCall # "none" /\ auth.user = "none"
    /\ auth.outcome = "error" /\ auth.redirected

-----------------------------------------------------------------------------
\* The row-level policies of the profiles table.

\* auth.uid() and auth.role() of the request: no user, or one of the users
Anonymous == [uid |-> "none", role |-> "anon"]

Sessions == {Anonymous} \cup {[uid |-> u, role |-> "authenticated"] : u \in Users}

Names == {"", "n"}

\* "Users can view own profile": FOR SELECT USING (auth.uid() = id)
ViewOwnProfile(session, row) == session.uid = row.id

\* "Users can update own profile": FOR UPDATE USING (auth.uid() = id)
UpdateOwnProfile(session, row) == session.uid = row.id

\* "Users can insert own profile": FOR INSERT WITH CHECK (auth.uid() = id)
InsertOwnProfile(session, row) == session.uid = row.id

\* "Enable profile creation for authenticated users":
\* FOR INSERT WITH CHECK (auth.role() = 'authenticated')
EnableProfileCreation(session, row) == session.role = "authenticated"

\* the policies of one command are permissive: a row passes if one of them does
InsertPermitted(session, row) ==
    InsertOwnProfile(session, row) \/ EnableProfileCreation(session, row)

\* rows: the table, each row with the user whose request inserted it
ProfilesInit ==
    /\ profiles \in {[session |-> s, rows |-> {}, rejected |-> FALSE] : s \in Sessions}
    /\ uploader = Unused /\ records = Unused /\ auth = Unused
    /\ PassIdle /\ PostIdle /\ calls = <<>>

ProfilesFrame == UNCHANGED <<passVars, postVars, calls, uploader, records, auth>>

\* the next request comes from another session
SetSession(s) ==
    /\ profiles.session # s
    /\ profiles' = [profiles EXCEPT !.session = s, !.rejected = FALSE]
    /\ ProfilesFrame

\* INSERT INTO profiles of a row with this id; the id identifies the row
\* (the application reads profiles with .eq("id", ...).single())
InsertProfile(id, name) ==
    /\ \A row \in profiles.rows : row.id # id
    /\ LET row == [id |-> id, full_name |-> name, by |-> profiles.session.uid] IN
       profiles' = IF InsertPermitted(profiles.session, row)
                   THEN [profiles EXCEPT !.rows = @ \cup {row}, !.rejected = FALSE]
                   ELSE [profiles EXCEPT !.rejected = TRUE]
    /\ ProfilesFrame

\* UPDATE profiles SET full_name of the row with this id: rows that do not
\* pass the policy are not seen by the command
UpdateProfile(id, name) ==
    /\ \E row \in profiles.rows :
         /\ row.id = id
         /\ UpdateOwnProfile(profiles.session, row)
         /\ row.full_name # name
         /\ profiles' = [profiles EXCEPT
                !.rows = (@ \ {row}) \cup {[row EXCEPT !.full_name = name]},
                !.rejected = FALSE]
    /\ ProfilesFrame

ProfilesNext ==
    \/ \E s \in Sessions : SetSession(s)
    \/ \E id \in Users, name \in Names : InsertProfile(id, name)
    \/ \E id \in Users, name \in Names : UpdateProfile(id, name)

SpecProfiles == ProfilesInit /\ [][ProfilesNext]_vars

\* C29, as claimed: every profile row was inserted by the user whose id it
\* carries; an insert of a row with the id of another user is rejected.
C29_InsertOnlyOwnRow ==
    \A row \in profiles.rows : row.by = row.id

-----------------------------------------------------------------------------
\* SignUpPage: handleSubmit of the sign-up form and signUp of the auth
\* context, one step per await.

MaxSubmits == 2

MinPasswordLength == 6

Repeated(c, n) == [i \in 1..n |-> c]

\* passwords on both sides of the length check, equal and different
Passwords ==
    {Repeated("a", MinPasswordLength - 1), Repeated("a", MinPasswordLength),
     Repeated("b", MinPasswordLength), <<>>}

\* messages, as their words
NotConfiguredMessage == <<"Supabase", "is", "not", "configured">>
ConfirmationMessage ==
    <<"Please", "check", "your", "email", "and", "click", "the", "confirmation",
      "link", "to", "complete", "signup.">>
FailedMessage == <<"Failed", "to", "sign", "up">>
MismatchMessage == <<"Passwords", "do", "not", "match">>
TooShortMessage == <<"Password", "must", "be", "at", "least", "6", "characters">>

\* error.message of a sign-up that the backend refused
BackendMessages ==
    {<<"User", "already", "registered">>, <<"Error", "sending", "confirmation", "email">>}

\* what supabase.auth.signUp can do: throw, resolve with an error, resolve
\* with a user whose email is not confirmed, with a confirmed one, or without
SignUpOutcomes ==
    {[kind |-> "throws"], [kind |-> "unconfirmed"], [kind |-> "confirmed"],
     [kind |-> "noUser"]}
        \cup {[kind |-> "error", message |-> m] : m \in BackendMessages}

NoError == <<>>

\* a wrong signUp: a user whose email is not confirmed counts as signed up
signUpWithoutConfirmation(outcome) ==
    IF outcome.kind = "throws" THEN [error |-> FailedMessage]
    ELSE IF outcome.kind = "error" THEN [error |-> outcome.message]
    ELSE [error |-> NoError]

\* the result of signUp after supabase.auth.signUp has settled
signUp(outcome) ==
    IF outcome.kind = "throws" THEN [error |-> FailedMessage]
    ELSE IF outcome.kind = "error" THEN [error |-> outcome.message]
    ELSE IF outcome.kind = "unconfirmed" THEN [error |-> ConfirmationMessage]
    ELSE [error |-> NoError]

\* result.error.includes("confirmation")
IncludesConfirmation(message) ==
    \E i \in DOMAIN message : message[i] = "confirmation"

SignUpInit ==
    /\ auth \in {[configured |-> c, password |-> <<>>, confirmPassword |-> <<>>,
                   error |-> NoError, loading |-> FALSE, success |-> FALSE,
                   needsConfirmation |-> FALSE, pc |-> "idle", submits |-> 0,
                   signUps |-> 0, outcome |-> "none", timers |-> 0,
                   finished |-> FALSE] : c \in BOOLEAN}
    /\ uploader = Unused /\ records = Unused /\ profiles = Unused
    /\ PassIdle /\ PostIdle /\ calls = <<>>

FormStepped == [auth EXCEPT !.finished = FALSE]

\* the fields are disabled while loading and after a success or a
\* confirmation request
FieldsEnabled == ~(auth.loading \/ auth.success \/ auth.needsConfirmation)

SetPassword(p) ==
    /\ FieldsEnabled
    /\ auth.password # p
    /\ auth' = [FormStepped EXCEPT !.password = p]
    /\ AuthFrame

SetConfirmPassword(p) ==
    /\ FieldsEnabled
    /\ auth.confirmPassword # p
    /\ auth' = [FormStepped EXCEPT !.confirmPassword = p]
    /\ AuthFrame

\* handleSubmit up to its await: the flags are reset, the two checks return
\* early, otherwise signUp is called
HandleSubmit ==
    /\ FieldsEnabled
    /\ auth.pc = "idle"
    /\ auth.submits < MaxSubmits
    /\ LET reset == [FormStepped EXCEPT !.submits = @ + 1, !.outcome = "none",
                                        !.error = NoError, !.success = FALSE,
                                        !.needsConfirmation = FALSE] IN
       auth' = IF auth.password # auth.confirmPassword
               THEN [reset EXCEPT !.error = MismatchMessage, !.finished = TRUE]
               ELSE IF Len(auth.password) < MinPasswordLength
               THEN [reset EXCEPT !.error = TooShortMessage, !.finished = TRUE]
               ELSE [reset EXCEPT !.loading = TRUE, !.signUps = @ + 1,
                                  !.pc = "signingUp"]
    /\ AuthFrame

\* the rest of handleSubmit, with the result of signUp
Finish(signedUp, kind) ==
    LET done == [FormStepped EXCEPT !.loading = FALSE, !.pc = "idle",
                                   !.outcome = kind, !.finished = TRUE] IN
    IF signedUp.error # NoError
    THEN IF IncludesConfirmation(signedUp.error)
         THEN [done EXCEPT !.needsConfirmation = TRUE]
         ELSE [done EXCEPT !.error = signedUp.error]
    ELSE [done EXCEPT !.success = TRUE, !.timers = @ + 1]

\* signUp returns: at once without a configured backend, otherwise when
\* supabase.auth.signUp has settled
SignUpSettles ==
    /\ auth.pc = "signingUp"
    /\ IF ~auth.configured
       THEN auth' = Finish([error |-> NotConfiguredMessage], "notConfigured")
       ELSE \E outcome \in SignUpOutcomes : auth' = Finish(signUp(outcome), outcome.kind)
    /\ AuthFrame

\* the callback of setTimeout: router.push("/dashboard")
RedirectFires ==
    /\ auth.timers > 0
    /\ auth' = [FormStepped EXCEPT !.timers = @ - 1]
    /\ AuthFrame

SignUpNext ==
    \/ \E p \in Passwords : SetPassword(p)
    \/ \E p \in Passwords : SetConfirmPassword(p)
    \/ HandleSubmit
    \/ SignUpSettles
    \/ RedirectFires

SpecSignUp == SignUpInit /\ [][SignUpNext]_vars

\* the flags of the form that are set
FlagsSet ==
    {flag \in {"error", "success", "needsConfirmation"} :
        \/ flag = "error" /\ auth.error # NoError
        \/ flag = "success" /\ auth.success
        \/ flag = "needsConfirmation" /\ auth.needsConfirmation}

\* C30: signUp is called only with a password that equals its confirmation
\* and has at least 6 characters; when handleSubmit finishes loading is
\* false and at most one of error, success and needsConfirmation is set; a
\* result that requires the confirmation of the email sets needsConfirmation
\* and not success.
C30_SubmitChecksThenOneFlag ==
    /\ auth.pc = "signingUp" =>
          (auth.password = auth.confirmPassword /\ Len(auth.password) >= MinPasswordLength)
    /\ auth.finished =>
          /\ ~auth.loading
          /\ Cardinality(FlagsSet) <= 1
          /\ (auth.password # auth.confirmPassword \/ Len(auth.password) < MinPasswordLength)
                => (auth.outcome = "none" /\ FlagsSet = {"error"})
          /\ auth.outcome = "unconfirmed" => FlagsSet = {"needsConfirmation"}

C30_Witness ==
    /\ auth.finished /\ auth.outcome = "unconfirmed"
    /\ auth.needsConfirmation /\ ~auth.success /\ ~auth.loading
    /\ auth.signUps = 1 /\ auth.submits = 2

=============================================================================
